---- MODULE Spec2Model ----
(***************************************************************************)
(* IronTrack workout tracker: the App component's state (src/App.tsx) and  *)
(* the advice gateway (geminiService, src/unnamed/part_000).               *)
(*                                                                         *)
(* React state hooks are the variables.  An event handler runs against the *)
(* state of the latest render, so a handler's closure is the current state *)
(* at the moment of the event.  A handler that awaits the gateway is split *)
(* at the await: the part before it captures its closure in a pending      *)
(* record, the part after it runs later from that record.  Without an API  *)
(* key the gateway returns at once (a resolved promise: the continuation   *)
(* runs in a microtask, before any other event), so the handler is atomic. *)
(***************************************************************************)
EXTENDS Integers, Sequences, FiniteSets, TLC

\* ---- bounds of the model ------------------------------------------------
\* generateId() calls in one run
MaxIds == 4
\* seconds the elapsed-time counter is followed for
MaxTime == 1
\* finishWorkout calls (with an active workout) in one run
MaxFinishCalls == 2
\* workouts of a history the advice is asked over
MaxHistory == 4

\* ---- inputs ---------------------------------------------------------------
\* one of the six workoutTypes offered on the dashboard
WorkoutTypes == {"Leg Day"}
ExerciseNames == {"Squat"}
UserNames == {"Sam"}
\* numbers typed into the weight and reps inputs
InputValues == {1}
Fields == {"weight", "reps"}
\* what the external generation endpoint does with one request: it answers
\* with text, answers with no text, or the request fails
GatewayOutcomes == {"text", "empty", "throw"}
\* response.text of an answered request
ModelText == "Brace your core."

VARIABLES
    apiKey,         \* process.env.API_KEY is set
    user,           \* User | null
    currentView,    \* ViewState
    workouts,       \* Workout[]: the history list
    activeWorkout,  \* Workout | null
    elapsedTime,    \* seconds counter
    aiTip,          \* string | null
    loadingTip,     \* boolean
    nextId,         \* the ids generateId() has handed out so far, plus one
    pendingFinish,  \* finishWorkout calls suspended at their await
    pendingAdvice,  \* requestAiAdvice calls suspended at their await, oldest first
    summaryLog,     \* the last "AI Summary:" line written to the console
    finishCalls,    \* history variable: finishWorkout calls so far
    finishLog,      \* history variable: workout ids by time of finalization
    cancelled,      \* history variable: id of the workout last discarded by cancel
    gw,             \* one gateway invocation, followed step by step
    localStorage,   \* the browser's storage: the two items the App keeps in it
    mount           \* where the App is in mounting, and the updates its
                    \* load effect has scheduled

vars == <<apiKey, user, currentView, workouts, activeWorkout, elapsedTime,
          aiTip, loadingTip, nextId, pendingFinish, pendingAdvice, summaryLog,
          finishCalls, finishLog, cancelled, gw, localStorage, mount>>

\* null of "T | null" state: the empty sequence; a value v is <<v>>
null == <<>>

\* ---- record model -----------------------------------------------------------
newSet(id, weight, reps) ==
    [id |-> id, weight |-> weight, reps |-> reps, completed |-> FALSE]

newExercise(id, name, setId) ==
    [id |-> id, name |-> name, sets |-> <<newSet(setId, 0, 0)>>]

\* date: the creation instant, read off the same counter as the ids
newWorkout(id, type) ==
    [id |-> id, name |-> type, date |-> id, exercises |-> <<>>,
     status |-> "active", durationSeconds |-> 0]

\* the workout in the active slot (only where activeWorkout # null)
Active == activeWorkout[1]

\* mutant: the key is never looked at
getExerciseAdviceBeginNoKeyCheck(key) ==
    [pc |-> "awaiting", attempts |-> 1, outcome |-> "none", result |-> ""]

\* ---- advice gateway ------------------------------------------------------------
\* A gateway function up to its await, as the record of the call: without a
\* key it returns its fallback and makes no request; with one it makes its
\* request (attempts counts the generateContent calls) and suspends.
getExerciseAdviceBegin(key) ==
    IF ~key
    THEN [pc |-> "returned", attempts |-> 0, outcome |-> "none",
          result |-> "AI insights require an API Key."]
    ELSE [pc |-> "awaiting", attempts |-> 1, outcome |-> "none", result |-> ""]

\* mutant: a failed request is made again
getExerciseAdviceEndRetries(c, outcome) ==
    IF outcome = "throw"
    THEN [c EXCEPT !.attempts = @ + 1]
    ELSE [c EXCEPT !.pc = "returned",
                   !.outcome = outcome,
                   !.result = IF outcome = "text" THEN ModelText
                              ELSE "Keep pushing!"]

\* after the await of call c: the response's text, "Keep pushing!" when the
\* response has none, and the catch block's string when the request failed
getExerciseAdviceEnd(c, outcome) ==
    [c EXCEPT !.pc = "returned",
              !.outcome = outcome,
              !.result = CASE outcome = "text"  -> ModelText
                           [] outcome = "empty" -> "Keep pushing!"
                           [] outcome = "throw" -> "Focus on your form and breathing."]

getWorkoutSummaryAnalysisBegin(key) ==
    IF ~key
    THEN [pc |-> "returned", attempts |-> 0, outcome |-> "none",
          result |-> "Great workout!"]
    ELSE [pc |-> "awaiting", attempts |-> 1, outcome |-> "none", result |-> ""]

getWorkoutSummaryAnalysisEnd(c, outcome) ==
    [c EXCEPT !.pc = "returned",
              !.outcome = outcome,
              !.result = CASE outcome = "text"  -> ModelText
                           [] outcome = "empty" -> "Good job completing your session."
                           [] outcome = "throw" -> "Great effort today!"]

\* Math.max(...values) of one number or more (of none it is -Infinity; every
\* exercise of a finished workout has a set)
MathMax(values) ==
    CHOOSE m \in {values[i] : i \in 1..Len(values)} :
        \A i \in 1..Len(values) : values[i] <= m

\* The part of the prompt that getExerciseAdvice makes of history: for each
\* exercise "<sets.length> sets, max weight <Math.max of the weights>kg", in
\* the order of history; the two numbers of each are kept here.
historyText(history) ==
    [n \in 1..Len(history) |->
        [sets |-> Len(history[n].sets),
         maxWeight |-> MathMax([j \in 1..Len(history[n].sets) |->
                                   history[n].sets[j].weight])]]

\* the value a caller's await receives
getExerciseAdvice(key, outcome) ==
    LET c == getExerciseAdviceBegin(key)
    IN  IF c.pc = "returned" THEN c.result
        ELSE getExerciseAdviceEnd(c, outcome).result

getWorkoutSummaryAnalysis(key, outcome) ==
    LET c == getWorkoutSummaryAnalysisBegin(key)
    IN  IF c.pc = "returned" THEN c.result
        ELSE getWorkoutSummaryAnalysisEnd(c, outcome).result

\* ---- local storage ------------------------------------------------------------
\* JSON text of a value, and the value of a JSON text: users and workouts are
\* plain objects of strings, finite numbers, booleans and arrays, which the
\* round trip keeps as they are
JSONstringify(value) == [json |-> value]

JSONparse(text) == text.json

\* an item is null until it is set, and then the text it was last set to
getItem(store, key) == store[key]

setItem(store, key, text) == [store EXCEPT ![key] = <<text>>]

\* the save effect, run after a render in which workouts has changed
saveWorkouts(store, list) ==
    setItem(store, "ironTrack_workouts", JSONstringify(list))

\* ---- handlers of App ----------------------------------------------------------
handleLogin(name) ==
    /\ nextId <= MaxIds
    /\ user' = <<[id |-> nextId, name |-> name]>>
    /\ nextId' = nextId + 1
    /\ localStorage' = setItem(localStorage, "ironTrack_user",
                               JSONstringify([id |-> nextId, name |-> name]))
    /\ UNCHANGED <<mount, apiKey, currentView, workouts, activeWorkout, elapsedTime,
                   aiTip, loadingTip, pendingFinish, pendingAdvice,
                   summaryLog, finishCalls, finishLog, cancelled, gw>>

\* mutant: the advice text of the session before is left standing
startWorkoutKeepsTip(type) ==
    /\ nextId <= MaxIds
    /\ activeWorkout' = <<newWorkout(nextId, type)>>
    /\ nextId' = nextId + 1
    /\ elapsedTime' = 0
    /\ currentView' = "ACTIVE_WORKOUT"
    /\ UNCHANGED <<localStorage, mount, apiKey, user, workouts, aiTip,
                   loadingTip, pendingFinish, pendingAdvice, summaryLog,
                   finishCalls, finishLog, cancelled, gw>>

startWorkout(type) ==
    /\ nextId <= MaxIds
    /\ activeWorkout' = <<newWorkout(nextId, type)>>
    /\ nextId' = nextId + 1
    /\ elapsedTime' = 0
    /\ currentView' = "ACTIVE_WORKOUT"
    /\ aiTip' = null
    /\ UNCHANGED <<localStorage, mount, apiKey, user, workouts, loadingTip, pendingFinish,
                   pendingAdvice, summaryLog, finishCalls, finishLog,
                   cancelled, gw>>

\* setActiveWorkout({ ...activeWorkout, exercises: updatedExercises })
setExercises(updatedExercises) ==
    /\ activeWorkout' = <<[Active EXCEPT !.exercises = updatedExercises]>>
    /\ UNCHANGED <<localStorage, mount, apiKey, user, currentView, workouts, elapsedTime, aiTip,
                   loadingTip, pendingFinish, pendingAdvice, summaryLog,
                   finishCalls, finishLog, cancelled, gw>>

addExercise(name) ==
    IF activeWorkout = null THEN UNCHANGED vars
    ELSE /\ nextId + 1 <= MaxIds
         /\ nextId' = nextId + 2
         /\ setExercises(Append(Active.exercises,
                                newExercise(nextId, name, nextId + 1)))

\* mutant: the set id is not compared
updateSetInEverySet(sets, setId, field, value) ==
    [i \in 1..Len(sets) |->
        IF field = "weight" THEN [sets[i] EXCEPT !.weight = value]
                            ELSE [sets[i] EXCEPT !.reps = value]]

\* ex.sets.map(s => s.id === setId ? { ...s, [field]: value } : s)
updateSetIn(sets, setId, field, value) ==
    [i \in 1..Len(sets) |->
        IF sets[i].id = setId
        THEN IF field = "weight" THEN [sets[i] EXCEPT !.weight = value]
                                 ELSE [sets[i] EXCEPT !.reps = value]
        ELSE sets[i]]

updateSet(exerciseId, setId, field, value) ==
    IF activeWorkout = null THEN UNCHANGED vars
    ELSE /\ UNCHANGED nextId
         /\ setExercises(
              [i \in 1..Len(Active.exercises) |->
                  LET ex == Active.exercises[i] IN
                  IF ex.id # exerciseId THEN ex
                  ELSE [ex EXCEPT !.sets = updateSetIn(ex.sets, setId, field, value)]])

\* mutant: the set is marked completed, whatever it was
toggleSetInMarksCompleted(sets, setId) ==
    [i \in 1..Len(sets) |->
        IF sets[i].id = setId
        THEN [sets[i] EXCEPT !.completed = TRUE]
        ELSE sets[i]]

\* ex.sets.map(s => s.id === setId ? { ...s, completed: !s.completed } : s)
toggleSetIn(sets, setId) ==
    [i \in 1..Len(sets) |->
        IF sets[i].id = setId
        THEN [sets[i] EXCEPT !.completed = ~sets[i].completed]
        ELSE sets[i]]

\* updatedExercises of toggleSetComplete
toggledExercises(exercises, exerciseId, setId) ==
    [i \in 1..Len(exercises) |->
        LET ex == exercises[i] IN
        IF ex.id # exerciseId THEN ex
        ELSE [ex EXCEPT !.sets = toggleSetIn(ex.sets, setId)]]

toggleSetComplete(exerciseId, setId) ==
    IF activeWorkout = null THEN UNCHANGED vars
    ELSE /\ UNCHANGED nextId
         /\ setExercises(toggledExercises(Active.exercises, exerciseId, setId))

\* mutant: the new set is blank, like the set of a new exercise
addSetToBlank(sets, previousSet, id) ==
    Append(sets, newSet(id, 0, 0))

\* [...ex.sets, { id: generateId(), weight: previousSet.weight, ... }]
addSetTo(sets, previousSet, id) ==
    Append(sets, newSet(id, previousSet.weight, previousSet.reps))

\* generateId() runs once for each exercise the id matches
addSet(exerciseId, previousSet) ==
    IF activeWorkout = null THEN UNCHANGED vars
    ELSE /\ nextId <= MaxIds
         /\ nextId' = IF \E i \in 1..Len(Active.exercises) :
                             Active.exercises[i].id = exerciseId
                      THEN nextId + 1 ELSE nextId
         /\ setExercises(
              [i \in 1..Len(Active.exercises) |->
                  LET ex == Active.exercises[i] IN
                  IF ex.id # exerciseId THEN ex
                  ELSE [ex EXCEPT !.sets = addSetTo(ex.sets, previousSet, nextId)]])

\* ex.sets.filter(s => s.id !== setId)
removeSetFrom(sets, setId) ==
    SelectSeq(sets, LAMBDA s : s.id # setId)

removeSet(exerciseId, setId) ==
    IF activeWorkout = null THEN UNCHANGED vars
    ELSE /\ UNCHANGED nextId
         /\ setExercises(
              [i \in 1..Len(Active.exercises) |->
                  LET ex == Active.exercises[i] IN
                  IF ex.id # exerciseId THEN ex
                  ELSE [ex EXCEPT !.sets = removeSetFrom(ex.sets, setId)]])

\* mutant: the status is left as it was
completedOfKeepsStatus(workout, elapsed) ==
    [workout EXCEPT !.durationSeconds = elapsed]

\* { ...activeWorkout, status: 'completed', durationSeconds: elapsedTime }
completedOf(workout, elapsed) ==
    [workout EXCEPT !.status = "completed", !.durationSeconds = elapsed]

\* the finalization order after the workout with this id is finalized (again)
logFinish(log, id) ==
    Append(SelectSeq(log, LAMBDA x : x # id), id)

\* mutant: a session whose summary call failed is not recorded
finishWorkoutResumeDropsFailed(p, summary) ==
    /\ summaryLog' = summary
    /\ workouts' = IF summary = "Great effort today!" THEN p.workouts
                   ELSE <<p.completedWorkout>> \o p.workouts
    /\ activeWorkout' = null
    /\ currentView' = "DASHBOARD"
    /\ pendingFinish' = pendingFinish \ {p}
    /\ finishLog' = logFinish(finishLog, p.completedWorkout.id)
    /\ localStorage' = saveWorkouts(localStorage, workouts')
    /\ UNCHANGED <<mount, apiKey, user, elapsedTime, aiTip, loadingTip, nextId,
                   pendingAdvice, cancelled, gw>>

\* mutant: the entry is put in front of the list of the latest render
\* (setWorkouts(prev => [completedWorkout, ...prev]))
finishWorkoutResumeOntoLatest(p, summary) ==
    /\ summaryLog' = summary
    /\ workouts' = <<p.completedWorkout>> \o workouts
    /\ activeWorkout' = null
    /\ currentView' = "DASHBOARD"
    /\ pendingFinish' = pendingFinish \ {p}
    /\ finishLog' = logFinish(finishLog, p.completedWorkout.id)
    /\ localStorage' = saveWorkouts(localStorage, workouts')
    /\ UNCHANGED <<mount, apiKey, user, elapsedTime, aiTip, loadingTip, nextId,
                   pendingAdvice, cancelled, gw>>

\* finishWorkout after its await: p is what the call captured before it
\* (completedWorkout, and the workouts of the render the click happened in);
\* the render that follows runs the save effect
finishWorkoutResume(p, summary) ==
    /\ summaryLog' = summary
    /\ workouts' = <<p.completedWorkout>> \o p.workouts
    /\ activeWorkout' = null
    /\ currentView' = "DASHBOARD"
    /\ pendingFinish' = pendingFinish \ {p}
    /\ finishLog' = logFinish(finishLog, p.completedWorkout.id)
    /\ localStorage' = saveWorkouts(localStorage, workouts')
    /\ UNCHANGED <<mount, apiKey, user, elapsedTime, aiTip, loadingTip, nextId,
                   pendingAdvice, cancelled, gw>>

\* mutant: no return when there is no active workout; the spread of null
\* gives a record with the status and the duration only
finishWorkoutUnguarded ==
    LET current == IF activeWorkout # null THEN Active
                   ELSE [id |-> 0, name |-> "", date |-> 0, exercises |-> <<>>,
                         status |-> "active", durationSeconds |-> 0]
        p == [completedWorkout |-> completedOf(current, elapsedTime),
              workouts |-> workouts]
    IN  /\ finishCalls < MaxFinishCalls
        /\ finishCalls' = finishCalls + 1
        /\ IF getWorkoutSummaryAnalysisBegin(apiKey).pc = "awaiting"
           THEN /\ pendingFinish' = pendingFinish \cup {p}
                /\ UNCHANGED <<localStorage, mount, apiKey, user, currentView,
                               workouts, activeWorkout, elapsedTime, aiTip,
                               loadingTip, nextId, pendingAdvice, summaryLog,
                               finishLog, cancelled, gw>>
           ELSE finishWorkoutResume(p, getWorkoutSummaryAnalysis(apiKey, "text"))

\* finishWorkout up to its await
finishWorkout ==
    IF activeWorkout = null THEN UNCHANGED vars
    ELSE LET p == [completedWorkout |-> completedOf(Active, elapsedTime),
                   workouts |-> workouts]
         IN  /\ finishCalls < MaxFinishCalls
             /\ finishCalls' = finishCalls + 1
             /\ IF getWorkoutSummaryAnalysisBegin(apiKey).pc = "awaiting"
                THEN /\ pendingFinish' = pendingFinish \cup {p}
                     /\ UNCHANGED <<localStorage, mount, apiKey, user, currentView, workouts,
                                    activeWorkout, elapsedTime, aiTip,
                                    loadingTip, nextId, pendingAdvice,
                                    summaryLog, finishLog, cancelled, gw>>
                ELSE finishWorkoutResume(p, getWorkoutSummaryAnalysis(apiKey, "text"))

\* the gateway answers a suspended finishWorkout
SummaryReturns ==
    \E p \in pendingFinish, outcome \in GatewayOutcomes :
        /\ finishWorkoutResume(p, getWorkoutSummaryAnalysis(apiKey, outcome))
        /\ UNCHANGED finishCalls

\* mutant: the discarded workout is put into the history
cancelWorkoutSaves(confirmed) ==
    IF confirmed
    THEN /\ activeWorkout' = null
         /\ currentView' = "DASHBOARD"
         /\ cancelled' = IF activeWorkout = null THEN cancelled ELSE Active.id
         /\ workouts' = IF activeWorkout = null THEN workouts
                        ELSE <<Active>> \o workouts
         /\ UNCHANGED <<localStorage, mount, apiKey, user, elapsedTime, aiTip, loadingTip, nextId,
                        pendingFinish, pendingAdvice, summaryLog, finishCalls,
                        finishLog, gw>>
    ELSE UNCHANGED vars

\* confirmed: what window.confirm returned
cancelWorkout(confirmed) ==
    IF confirmed
    THEN /\ activeWorkout' = null
         /\ currentView' = "DASHBOARD"
         /\ cancelled' = IF activeWorkout = null THEN cancelled ELSE Active.id
         /\ UNCHANGED <<localStorage, mount, apiKey, user, workouts, elapsedTime, aiTip, loadingTip,
                        nextId, pendingFinish, pendingAdvice, summaryLog,
                        finishCalls, finishLog, gw>>
    ELSE UNCHANGED vars

\* the suspended calls without call p, which has resumed
resumed(calls, p) ==
    LET i == CHOOSE i \in 1..Len(calls) : calls[i] = p
    IN  SubSeq(calls, 1, i - 1) \o SubSeq(calls, i + 1, Len(calls))

\* requestAiAdvice after its await
requestAiAdviceResume(p, advice) ==
    /\ aiTip' = <<p.name \o ": " \o advice>>
    /\ loadingTip' = FALSE
    /\ pendingAdvice' = IF \E i \in 1..Len(pendingAdvice) : pendingAdvice[i] = p
                        THEN resumed(pendingAdvice, p) ELSE pendingAdvice
    /\ UNCHANGED <<localStorage, mount, apiKey, user, currentView, workouts, activeWorkout,
                   elapsedTime, nextId, pendingFinish, summaryLog, finishCalls,
                   finishLog, cancelled, gw>>

\* String.prototype.toLowerCase, on the exercise names that occur here
toLowerCase(name) ==
    CASE name \in {"Squat", "SQUAT", "squat"} -> "squat"
      [] name \in {"Bench Press", "bench press"} -> "bench press"
      [] OTHER -> name

\* list.flatMap(w => w.exercises)
flatMapExercises(list) ==
    LET RECURSIVE flat(_)
        flat(k) == IF k > Len(list) THEN <<>>
                   ELSE list[k].exercises \o flat(k + 1)
    IN  flat(1)

\* seq.slice(0, end)
slice(seq, end) == SubSeq(seq, 1, IF Len(seq) < end THEN Len(seq) ELSE end)

\* mutant: the names are compared as they are written
adviceHistoryCaseSensitive(list, exercise) ==
    slice(SelectSeq(flatMapExercises(list),
                    LAMBDA e : e.name = exercise.name), 5)

\* the history requestAiAdvice hands to getExerciseAdvice
adviceHistory(list, exercise) ==
    slice(SelectSeq(flatMapExercises(list),
                    LAMBDA e : toLowerCase(e.name) = toLowerCase(exercise.name)), 5)

\* requestAiAdvice up to its await; session is the workout the request was
\* made in (the activeWorkout of the render the click happened in), history
\* what the call hands to the gateway and historyText what the gateway, which
\* has a key when the call is suspended, makes of it
requestAiAdvice(exercise) ==
    LET history == adviceHistory(workouts, exercise)
        p == [name |-> exercise.name,
              session |-> IF activeWorkout = null THEN 0 ELSE Active.id,
              history |-> history,
              historyText |-> historyText(history)]
    IN  IF getExerciseAdviceBegin(apiKey).pc = "awaiting"
        THEN /\ loadingTip' = TRUE
             /\ pendingAdvice' = Append(pendingAdvice, p)
             /\ UNCHANGED <<localStorage, mount, apiKey, user, currentView, workouts, activeWorkout,
                            elapsedTime, aiTip, nextId, pendingFinish,
                            summaryLog, finishCalls, finishLog, cancelled, gw>>
        ELSE requestAiAdviceResume(p, getExerciseAdvice(apiKey, "text"))

\* the gateway answers a suspended requestAiAdvice
AdviceReturns ==
    \E i \in 1..Len(pendingAdvice), outcome \in GatewayOutcomes :
        requestAiAdviceResume(pendingAdvice[i], getExerciseAdvice(apiKey, outcome))

\* mutant: the interval is never cleared
TickNeverCleared ==
    /\ elapsedTime < MaxTime
    /\ elapsedTime' = elapsedTime + 1
    /\ UNCHANGED <<localStorage, mount, apiKey, user, currentView, workouts,
                   activeWorkout, aiTip, loadingTip, nextId, pendingFinish,
                   pendingAdvice, summaryLog, finishCalls, finishLog,
                   cancelled, gw>>

\* the interval callback of the timer effect; the interval exists only while
\* activeWorkout is set
Tick ==
    /\ activeWorkout # null
    /\ elapsedTime < MaxTime
    /\ elapsedTime' = elapsedTime + 1
    /\ UNCHANGED <<localStorage, mount, apiKey, user, currentView, workouts, activeWorkout, aiTip,
                   loadingTip, nextId, pendingFinish, pendingAdvice,
                   summaryLog, finishCalls, finishLog, cancelled, gw>>

\* [...workouts].reverse(): the order HistoryView lists the workouts in
HistoryView ==
    [i \in 1..Len(workouts) |-> workouts[Len(workouts) + 1 - i]]

\* ---- the view: which handler a user can reach, and with what arguments -----
\* React runs the effects of a render, and the renders they schedule, before
\* it handles an event: an event meets the App mounted
Rendered == mount.pc = "running"

\* the login screen is all that renders until a user exists
LoggedIn == user # null

DashboardShown == Rendered /\ LoggedIn /\ currentView = "DASHBOARD"

ActiveWorkoutShown ==
    /\ Rendered
    /\ LoggedIn
    /\ currentView = "ACTIVE_WORKOUT"
    /\ activeWorkout # null

SubmitLogin ==
    /\ Rendered
    /\ ~LoggedIn
    /\ \E name \in UserNames : handleLogin(name)

\* mutant: the bottom navigation renders with an active workout too
NavigateWithWorkout ==
    /\ Rendered
    /\ LoggedIn
    /\ \E view \in {"DASHBOARD", "HISTORY"} : currentView' = view
    /\ UNCHANGED <<localStorage, mount, apiKey, user, workouts, activeWorkout,
                   elapsedTime, aiTip, loadingTip, nextId, pendingFinish,
                   pendingAdvice, summaryLog, finishCalls, finishLog,
                   cancelled, gw>>

\* the bottom navigation renders only without an active workout
Navigate ==
    /\ Rendered
    /\ LoggedIn
    /\ activeWorkout = null
    /\ \E view \in {"DASHBOARD", "HISTORY"} : currentView' = view
    /\ UNCHANGED <<localStorage, mount, apiKey, user, workouts, activeWorkout, elapsedTime, aiTip,
                   loadingTip, nextId, pendingFinish, pendingAdvice,
                   summaryLog, finishCalls, finishLog, cancelled, gw>>

ClickStartWorkout ==
    /\ DashboardShown
    /\ \E type \in WorkoutTypes : startWorkout(type)

SubmitExercise ==
    /\ ActiveWorkoutShown
    /\ \E name \in ExerciseNames : addExercise(name)

ChangeSetInput ==
    /\ ActiveWorkoutShown
    /\ \E i \in 1..Len(Active.exercises) :
         \E j \in 1..Len(Active.exercises[i].sets) :
           \E field \in Fields, value \in InputValues :
             updateSet(Active.exercises[i].id, Active.exercises[i].sets[j].id,
                       field, value)

\* Texts a number input hands to its change handler.  Two are followed here, a
\* positive and a negative integer; the input has no min and accepts decimals,
\* and an emptied input hands over the empty text.
InputTexts == {"1", "-1"}

\* parseFloat of such a text (of the empty text it is NaN)
parseFloat(text) ==
    CASE text = "1"  -> 1
      [] text = "-1" -> -1

\* onChange of the weight and reps inputs, with the text that was typed
TypeSetInput ==
    /\ ActiveWorkoutShown
    /\ \E i \in 1..Len(Active.exercises) :
         \E j \in 1..Len(Active.exercises[i].sets) :
           \E field \in Fields, text \in InputTexts :
             updateSet(Active.exercises[i].id, Active.exercises[i].sets[j].id,
                       field, parseFloat(text))

ClickToggleSet ==
    /\ ActiveWorkoutShown
    /\ \E i \in 1..Len(Active.exercises) :
         \E j \in 1..Len(Active.exercises[i].sets) :
           toggleSetComplete(Active.exercises[i].id,
                             Active.exercises[i].sets[j].id)

\* the button passes exercise.sets[exercise.sets.length - 1]
ClickAddSet ==
    /\ ActiveWorkoutShown
    /\ \E i \in 1..Len(Active.exercises) :
         LET exercise == Active.exercises[i] IN
         /\ Len(exercise.sets) >= 1
         /\ addSet(exercise.id, exercise.sets[Len(exercise.sets)])

\* mutant: the delete button is shown for an only set too
removeShownForOnlySet(exercise) == Len(exercise.sets) > 0

\* {exercise.sets.length > 1 && (<button onClick={() => onRemoveSet(...)}>)}
removeShown(exercise) == Len(exercise.sets) > 1

ClickRemoveSet ==
    /\ ActiveWorkoutShown
    /\ \E i \in 1..Len(Active.exercises) :
         LET exercise == Active.exercises[i] IN
         /\ removeShown(exercise)
         /\ \E j \in 1..Len(exercise.sets) :
              removeSet(exercise.id, exercise.sets[j].id)

ClickFinish ==
    /\ ActiveWorkoutShown
    /\ finishWorkout

ClickCancel ==
    /\ ActiveWorkoutShown
    /\ \E confirmed \in BOOLEAN : cancelWorkout(confirmed)

\* mutant: the AI Tip button is never disabled
ClickAiTipWhileLoading ==
    /\ ActiveWorkoutShown
    /\ \E i \in 1..Len(Active.exercises) : requestAiAdvice(Active.exercises[i])

\* the AI Tip button is disabled while loadingTip
ClickAiTip ==
    /\ ActiveWorkoutShown
    /\ ~loadingTip
    /\ \E i \in 1..Len(Active.exercises) : requestAiAdvice(Active.exercises[i])

CloseTip ==
    /\ ActiveWorkoutShown
    /\ aiTip # null
    /\ aiTip' = null
    /\ UNCHANGED <<localStorage, mount, apiKey, user, currentView, workouts, activeWorkout,
                   elapsedTime, loadingTip, nextId, pendingFinish,
                   pendingAdvice, summaryLog, finishCalls, finishLog,
                   cancelled, gw>>

\* ---- the application -------------------------------------------------------
GwIdle ==
    [pc |-> "idle", kind |-> "none", args |-> <<>>, attempts |-> 0,
     outcome |-> "none", result |-> ""]

\* mounting is over: no update is waiting
Mounted == [pc |-> "running", setUser |-> null, setWorkouts |-> null]

\* The state after mount: the API key is set or not, and the user is the one
\* saved by an earlier run (loaded by the mount effect) or there is none yet;
\* the save effect has written the empty history.
Init ==
    /\ apiKey \in BOOLEAN
    /\ user \in {null, <<[id |-> 0, name |-> "Sam"]>>}
    /\ localStorage =
         [ironTrack_user |-> IF user = null THEN null
                             ELSE <<JSONstringify(user[1])>>,
          ironTrack_workouts |-> <<JSONstringify(<<>>)>>]
    /\ mount = Mounted
    /\ currentView = "DASHBOARD"
    /\ workouts = <<>>
    /\ activeWorkout = null
    /\ elapsedTime = 0
    /\ aiTip = null
    /\ loadingTip = FALSE
    /\ nextId = 1
    /\ pendingFinish = {}
    /\ pendingAdvice = <<>>
    /\ summaryLog = ""
    /\ finishCalls = 0
    /\ finishLog = <<>>
    /\ cancelled = 0
    /\ gw = GwIdle

\* every event of the application once it is mounted
Next ==
    \/ SubmitLogin
    \/ Navigate
    \/ ClickStartWorkout
    \/ SubmitExercise
    \/ ChangeSetInput
    \/ TypeSetInput
    \/ ClickToggleSet
    \/ ClickAddSet
    \/ ClickRemoveSet
    \/ ClickFinish
    \/ SummaryReturns
    \/ ClickCancel
    \/ ClickAiTip
    \/ AdviceReturns
    \/ CloseTip
    \/ Tick

Spec == Init /\ [][Next]_vars

\* The session lifecycle: start, finish (with its suspended gateway call),
\* cancel, the timer, and edits of the one set a new exercise comes with.
\* The events left out write only the active workout's exercises, aiTip,
\* loadingTip and pendingAdvice.
SessionNext ==
    \/ SubmitLogin
    \/ Navigate
    \/ ClickStartWorkout
    \/ SubmitExercise
    \/ ChangeSetInput
    \/ ClickFinish
    \/ SummaryReturns
    \/ ClickCancel
    \/ Tick

SpecSession == Init /\ [][SessionNext]_vars

\* What is typed into the inputs of a set, from there into the history.
InputNext ==
    \/ SubmitLogin
    \/ ClickStartWorkout
    \/ SubmitExercise
    \/ TypeSetInput
    \/ ClickFinish
    \/ SummaryReturns

SpecInput == Init /\ [][InputNext]_vars

\* Editing the active workout: every event that changes its exercises.
EditNext ==
    \/ SubmitLogin
    \/ ClickStartWorkout
    \/ SubmitExercise
    \/ ChangeSetInput
    \/ ClickToggleSet
    \/ ClickAddSet
    \/ ClickRemoveSet

SpecEdit == Init /\ [][EditNext]_vars

\* Exercise advice across sessions: requests, their answers, and the events
\* that end a session and begin the next.
AdviceNext ==
    \/ SubmitLogin
    \/ ClickStartWorkout
    \/ SubmitExercise
    \/ ClickCancel
    \/ ClickAiTip
    \/ AdviceReturns
    \/ CloseTip

SpecAdvice == Init /\ [][AdviceNext]_vars

\* ---- mounting, and starting again after a crash ------------------------------
\* the useState initial values: the state of the first render
FirstRender ==
    /\ user = null
    /\ currentView = "DASHBOARD"
    /\ workouts = <<>>
    /\ activeWorkout = null
    /\ elapsedTime = 0
    /\ aiTip = null
    /\ loadingTip = FALSE

\* The effects of the first render, in the order they are declared: the load
\* effect reads the two items and schedules setUser and setWorkouts for the
\* items that are there; the save effect writes the workouts of the render the
\* effects belong to, which is the initial empty list.
MountEffects ==
    /\ mount.pc = "mounting"
    /\ LET savedUser == getItem(localStorage, "ironTrack_user")
           savedWorkouts == getItem(localStorage, "ironTrack_workouts")
       IN  mount' = [pc |-> "loaded",
                     setUser |-> IF savedUser # null
                                 THEN <<JSONparse(savedUser[1])>> ELSE null,
                     setWorkouts |-> IF savedWorkouts # null
                                     THEN <<JSONparse(savedWorkouts[1])>> ELSE null]
    /\ localStorage' = saveWorkouts(localStorage, workouts)
    /\ UNCHANGED <<apiKey, user, currentView, workouts, activeWorkout,
                   elapsedTime, aiTip, loadingTip, nextId, pendingFinish,
                   pendingAdvice, summaryLog, finishCalls, finishLog,
                   cancelled, gw>>

\* The render with the scheduled updates applied; the save effect runs again
\* when setWorkouts was among them.
MountRender ==
    /\ mount.pc = "loaded"
    /\ user' = IF mount.setUser # null THEN mount.setUser ELSE user
    /\ workouts' = IF mount.setWorkouts # null THEN mount.setWorkouts[1]
                   ELSE workouts
    /\ localStorage' = IF mount.setWorkouts # null
                       THEN saveWorkouts(localStorage, workouts')
                       ELSE localStorage
    /\ mount' = Mounted
    /\ UNCHANGED <<apiKey, currentView, activeWorkout, elapsedTime, aiTip,
                   loadingTip, nextId, pendingFinish, pendingAdvice,
                   summaryLog, finishCalls, finishLog, cancelled, gw>>

\* The page goes away (closed, reloaded, or the browser dies) and the App is
\* opened again: the component state and the suspended calls are gone, the
\* storage is what it was.
Crash ==
    /\ user' = null
    /\ currentView' = "DASHBOARD"
    /\ workouts' = <<>>
    /\ activeWorkout' = null
    /\ elapsedTime' = 0
    /\ aiTip' = null
    /\ loadingTip' = FALSE
    /\ pendingFinish' = {}
    /\ pendingAdvice' = <<>>
    /\ mount' = [pc |-> "mounting", setUser |-> null, setWorkouts |-> null]
    /\ UNCHANGED <<apiKey, localStorage, nextId, summaryLog, finishCalls,
                   finishLog, cancelled, gw>>

\* the first launch on a browser whose storage has neither item
InitLaunch ==
    /\ apiKey \in BOOLEAN
    /\ FirstRender
    /\ localStorage = [ironTrack_user |-> null, ironTrack_workouts |-> null]
    /\ mount = [pc |-> "mounting", setUser |-> null, setWorkouts |-> null]
    /\ nextId = 1
    /\ pendingFinish = {}
    /\ pendingAdvice = <<>>
    /\ summaryLog = ""
    /\ finishCalls = 0
    /\ finishLog = <<>>
    /\ cancelled = 0
    /\ gw = GwIdle

\* The App from its first launch, across crashes and restarts: mounting, login,
\* and the events that change the history.
StorageNext ==
    \/ MountEffects
    \/ MountRender
    \/ Crash
    \/ SubmitLogin
    \/ ClickStartWorkout
    \/ ClickFinish
    \/ SummaryReturns

SpecStorage == InitLaunch /\ [][StorageNext]_vars

\* The slot, the view and the history across a run of the App: every event
\* that writes activeWorkout, currentView or workouts, the timer (which makes
\* two finish requests for one workout differ), and a crash with the launch
\* that follows.  The events left out write only the active workout's
\* exercises, aiTip, loadingTip and pendingAdvice.
LifecycleNext ==
    \/ SubmitLogin
    \/ Navigate
    \/ ClickStartWorkout
    \/ Tick
    \/ ClickFinish
    \/ SummaryReturns
    \/ ClickCancel
    \/ Crash
    \/ MountEffects
    \/ MountRender

SpecLifecycle == Init /\ [][LifecycleNext]_vars

\* ---- the session store's entry points on their own ---------------------------
\* A workout in progress with two exercises, of two sets and of one set, made
\* in an earlier part of the session (its ids are not among those generateId
\* hands out from here on), and a workout finished before it.
StoreActive ==
    [id |-> 110, name |-> "Leg Day", date |-> 110,
     exercises |-> <<[id |-> 111, name |-> "Squat",
                      sets |-> <<[id |-> 112, weight |-> 1, reps |-> 1,
                                  completed |-> TRUE],
                                 newSet(113, 1, 0)>>],
                     [id |-> 114, name |-> "Squat",
                      sets |-> <<newSet(115, 0, 0)>>]>>,
     status |-> "active", durationSeconds |-> 0]

StoreFinished ==
    [id |-> 100, name |-> "Leg Day", date |-> 100,
     exercises |-> <<[id |-> 101, name |-> "Squat",
                      sets |-> <<[id |-> 102, weight |-> 1, reps |-> 1,
                                  completed |-> TRUE]>>]>>,
     status |-> "completed", durationSeconds |-> 1]

\* labels a caller starts a session with
StoreLabels == {"Leg Day", "Push Day"}

\* The App at a moment of a session: mounted and logged in, with or without a
\* workout in progress, a finished one, a counted second, an advice text.
InitStore ==
    /\ apiKey \in BOOLEAN
    /\ user = <<[id |-> 0, name |-> "Sam"]>>
    /\ activeWorkout \in {null, <<StoreActive>>}
    /\ currentView \in IF activeWorkout = null THEN {"DASHBOARD", "HISTORY"}
                        ELSE {"ACTIVE_WORKOUT"}
    /\ workouts \in {<<>>, <<StoreFinished>>}
    /\ elapsedTime \in 0..MaxTime
    /\ aiTip \in {null, <<"Squat: Keep pushing!">>}
    /\ loadingTip = FALSE
    /\ nextId = 1
    /\ pendingFinish = {}
    /\ pendingAdvice = <<>>
    /\ summaryLog = ""
    /\ finishCalls = 0
    /\ finishLog = IF workouts = <<>> THEN <<>> ELSE <<StoreFinished.id>>
    /\ cancelled = 0
    /\ gw = GwIdle
    /\ localStorage = saveWorkouts(
                          [ironTrack_user |-> <<JSONstringify(user[1])>>,
                           ironTrack_workouts |-> null], workouts)
    /\ mount = Mounted

\* ids a caller can name: those of the active workout's exercises and sets,
\* and 0, which is no exercise's and no set's id
ExerciseIdArgs ==
    {0} \cup (IF activeWorkout = null THEN {}
              ELSE {Active.exercises[i].id : i \in 1..Len(Active.exercises)})

SetIdArgs ==
    {0} \cup (IF activeWorkout = null THEN {}
              ELSE UNION {{Active.exercises[i].sets[j].id :
                               j \in 1..Len(Active.exercises[i].sets)} :
                          i \in 1..Len(Active.exercises)})

\* the entry points, called whatever the view shows
CallStartWorkout == \E type \in StoreLabels : startWorkout(type)

CallAddExercise == \E name \in ExerciseNames : addExercise(name)

CallUpdateSet ==
    \E exerciseId \in ExerciseIdArgs, setId \in SetIdArgs :
        \E field \in Fields, value \in InputValues :
            updateSet(exerciseId, setId, field, value)

CallToggleSetComplete ==
    \E exerciseId \in ExerciseIdArgs, setId \in SetIdArgs :
        toggleSetComplete(exerciseId, setId)

\* previousSet as the Add Set button passes it: the exercise's last set
CallAddSet ==
    \/ activeWorkout = null /\ addSet(0, newSet(0, 0, 0))
    \/ /\ activeWorkout # null
       /\ \E i \in 1..Len(Active.exercises) :
            LET exercise == Active.exercises[i] IN
            /\ Len(exercise.sets) >= 1
            /\ addSet(exercise.id, exercise.sets[Len(exercise.sets)])

CallRemoveSet ==
    \E exerciseId \in ExerciseIdArgs, setId \in SetIdArgs :
        removeSet(exerciseId, setId)

CallFinishWorkout == finishWorkout

CallCancelWorkout == \E confirmed \in BOOLEAN : cancelWorkout(confirmed)

\* the entry points that edit a workout, called while none is in progress
CallWithoutWorkout ==
    /\ activeWorkout = null
    /\ \/ CallAddExercise
       \/ CallUpdateSet
       \/ CallToggleSetComplete
       \/ CallAddSet
       \/ CallRemoveSet

\* The session's course: the entry points that begin and end a workout, and
\* the editing entry points while no workout is in progress.
StoreNext ==
    \/ CallStartWorkout
    \/ CallWithoutWorkout
    \/ CallFinishWorkout
    \/ SummaryReturns
    \/ CallCancelWorkout

SpecStore == InitStore /\ [][StoreNext]_vars

\* The entry points that edit the sets of the workout in progress.
StoreEditNext ==
    \/ CallUpdateSet
    \/ CallToggleSetComplete

SpecStoreEdit == InitStore /\ [][StoreEditNext]_vars

\* The entry points that add an exercise and a set to the workout in progress.
StoreGrowNext ==
    \/ CallAddExercise
    \/ CallAddSet

SpecStoreGrow == InitStore /\ [][StoreGrowNext]_vars

\* ---- advice over a history ----------------------------------------------------
\* the exercise names of a finished workout, in the order they were added
HistoryShapes ==
    {<<"Squat">>, <<"squat", "Bench Press">>, <<"SQUAT", "Squat">>}

\* Exercise e, of the given name, of the workout at place k of a history: three
\* sets, the heaviest of them the first or the second according to k.
historyExercise(k, e, name) ==
    [id |-> 100 * k + 10 * e, name |-> name,
     sets |-> <<[id |-> 100 * k + 10 * e + 1, weight |-> k, reps |-> 5,
                 completed |-> TRUE],
                [id |-> 100 * k + 10 * e + 2, weight |-> 3, reps |-> 5,
                 completed |-> TRUE],
                [id |-> 100 * k + 10 * e + 3, weight |-> e, reps |-> 5,
                 completed |-> FALSE]>>]

\* the finished workout at place k of a history, place 1 being the newest
historyWorkout(k, names) ==
    [id |-> 100 * k, name |-> "Leg Day", date |-> 0 - k,
     exercises |-> [e \in 1..Len(names) |-> historyExercise(k, e, names[e])],
     status |-> "completed", durationSeconds |-> 1]

\* histories of up to MaxHistory workouts, newest first as finishWorkout
\* leaves them
HistoryLists ==
    UNION {{[k \in 1..n |-> historyWorkout(k, shapes[k])] :
               shapes \in [1..n -> HistoryShapes]} : n \in 0..MaxHistory}

\* the workout in progress the advice is asked in
HistoryActive ==
    [id |-> 10, name |-> "Leg Day", date |-> 10,
     exercises |-> <<[id |-> 11, name |-> "squat",
                      sets |-> <<newSet(12, 3, 5)>>],
                     [id |-> 13, name |-> "Bench Press",
                      sets |-> <<newSet(14, 0, 0)>>]>>,
     status |-> "active", durationSeconds |-> 0]

\* The App in a session, over any of the histories.
InitHistory ==
    /\ apiKey \in BOOLEAN
    /\ user = <<[id |-> 0, name |-> "Sam"]>>
    /\ currentView = "ACTIVE_WORKOUT"
    /\ workouts \in HistoryLists
    /\ activeWorkout = <<HistoryActive>>
    /\ elapsedTime = 0
    /\ aiTip = null
    /\ loadingTip = FALSE
    /\ nextId = 1
    /\ pendingFinish = {}
    /\ pendingAdvice = <<>>
    /\ summaryLog = ""
    /\ finishCalls = 0
    /\ finishLog = [i \in 1..Len(workouts) |-> workouts[Len(workouts) + 1 - i].id]
    /\ cancelled = 0
    /\ gw = GwIdle
    /\ localStorage = saveWorkouts(
                          [ironTrack_user |-> <<JSONstringify(user[1])>>,
                           ironTrack_workouts |-> null], workouts)
    /\ mount = Mounted

HistoryNext ==
    \/ ClickAiTip
    \/ AdviceReturns
    \/ CloseTip

SpecHistory == InitHistory /\ [][HistoryNext]_vars

\* ---- the gateway functions on their own ------------------------------------
\* exercises handed to the gateway: two spellings of one name, one or two sets
GatewayExercises ==
    {[id |-> 1, name |-> name, sets |-> sets] :
        name \in {"Bench Press", "bench press"},
        sets \in {<<newSet(2, 60, 10)>>, <<newSet(2, 60, 10), newSet(3, 80, 5)>>}}

GatewayHistories ==
    {<<>>} \cup {<<h>> : h \in GatewayExercises}
           \cup {<<h1, h2>> : h1 \in GatewayExercises, h2 \in GatewayExercises}

\* getExerciseAdvice(exercise, history) is called
InvokeExerciseAdvice ==
    /\ gw.pc = "idle"
    /\ \E exercise \in GatewayExercises, history \in GatewayHistories :
         gw' = getExerciseAdviceBegin(apiKey) @@
               [kind |-> "exercise", args |-> <<exercise, history>>]
    /\ UNCHANGED <<localStorage, mount, apiKey, user, currentView, workouts, activeWorkout,
                   elapsedTime, aiTip, loadingTip, nextId, pendingFinish,
                   pendingAdvice, summaryLog, finishCalls, finishLog, cancelled>>

\* getWorkoutSummaryAnalysis(workoutName, duration, exercises) is called
InvokeWorkoutSummary ==
    /\ gw.pc = "idle"
    /\ \E workoutName \in WorkoutTypes, duration \in {0, 600},
          exercises \in GatewayHistories :
         gw' = getWorkoutSummaryAnalysisBegin(apiKey) @@
               [kind |-> "summary", args |-> <<workoutName, duration, exercises>>]
    /\ UNCHANGED <<localStorage, mount, apiKey, user, currentView, workouts, activeWorkout,
                   elapsedTime, aiTip, loadingTip, nextId, pendingFinish,
                   pendingAdvice, summaryLog, finishCalls, finishLog, cancelled>>

\* the endpoint is done with the request of the suspended call
GatewayAnswers ==
    /\ gw.pc = "awaiting"
    /\ \E outcome \in GatewayOutcomes :
         gw' = IF gw.kind = "exercise"
               THEN getExerciseAdviceEnd(gw, outcome)
               ELSE getWorkoutSummaryAnalysisEnd(gw, outcome)
    /\ UNCHANGED <<localStorage, mount, apiKey, user, currentView, workouts, activeWorkout,
                   elapsedTime, aiTip, loadingTip, nextId, pendingFinish,
                   pendingAdvice, summaryLog, finishCalls, finishLog, cancelled>>

\* the caller has the value; the next call can begin
GatewayDone ==
    /\ gw.pc = "returned"
    /\ gw' = GwIdle
    /\ UNCHANGED <<localStorage, mount, apiKey, user, currentView, workouts, activeWorkout,
                   elapsedTime, aiTip, loadingTip, nextId, pendingFinish,
                   pendingAdvice, summaryLog, finishCalls, finishLog, cancelled>>

GatewayNext ==
    \/ InvokeExerciseAdvice
    \/ InvokeWorkoutSummary
    \/ GatewayAnswers
    \/ GatewayDone

SpecGateway == Init /\ [][GatewayNext]_vars

\* ---- properties ---------------------------------------------------------------

\* C1: every finishWorkout called on an active workout leaves, once it has
\* completed, a history list one entry longer than the list at the call, and
\* an empty active slot, whatever the summary call did.  A suspended call
\* completes in the step that takes it out of pendingFinish; without a key the
\* call completes in the step it is made in.
C1_FinishAddsOneEntry ==
    [][/\ \A p \in pendingFinish :
            p \notin pendingFinish' =>
                /\ Len(workouts') = Len(p.workouts) + 1
                /\ activeWorkout' = null
       /\ (~apiKey /\ finishCalls' # finishCalls) =>
                /\ Len(workouts') = Len(workouts) + 1
                /\ activeWorkout' = null]_vars

\* a finishWorkout has completed after its summary call failed
C1_Witness ==
    /\ summaryLog = "Great effort today!"
    /\ activeWorkout = null
    /\ Len(workouts) = 1
    /\ pendingFinish = {}

\* C2, as stated: every exercise of the active workout has at least one set,
\* and removeSet applied to an exercise's only set leaves its sets unchanged.
C2_RemoveOnlySetIsNoOp ==
    activeWorkout # null =>
        \A i \in 1..Len(Active.exercises) :
            LET ex == Active.exercises[i] IN
            /\ Len(ex.sets) >= 1
            /\ Len(ex.sets) = 1 =>
                   removeSetFrom(ex.sets, ex.sets[1].id) = ex.sets

\* C2, amended: every exercise of the active workout has at least one set in
\* every state the view can reach, because the view offers removeSet only for
\* an exercise with more than one set; removeSet itself, applied to an only
\* set, leaves the exercise with no sets.
C2_ViewKeepsOneSet ==
    activeWorkout # null =>
        \A i \in 1..Len(Active.exercises) :
            LET ex == Active.exercises[i] IN
            /\ Len(ex.sets) >= 1
            /\ Len(ex.sets) = 1 =>
                   /\ ~removeShown(ex)
                   /\ removeSetFrom(ex.sets, ex.sets[1].id) = <<>>

\* an exercise is down to one set after a removal: the set it was created
\* with (the id after its own) is gone, one that addSet appended is left
C2_Witness ==
    /\ activeWorkout # null
    /\ \E i \in 1..Len(Active.exercises) :
         LET ex == Active.exercises[i] IN
         /\ Len(ex.sets) = 1
         /\ ex.sets[1].id # ex.id + 1

\* C3: a confirmed cancel leaves the history list unchanged and the active
\* slot empty, whatever the active workout contains.
C3_CancelKeepsHistory ==
    [][cancelled' # cancelled =>
           /\ workouts' = workouts
           /\ activeWorkout' = null]_vars

\* a workout with an exercise and its set has been cancelled; no finish was
\* ever called, so the ids drawn after the workout's own are its contents'
C3_Witness ==
    /\ cancelled # 0
    /\ activeWorkout = null
    /\ finishCalls = 0
    /\ nextId >= cancelled + 3

\* C4: the only workout with status active is the one in the active slot: the
\* slot's workout is active, and every workout of the history list, and of the
\* lists and records the suspended finish calls hold, is completed.
C4_OnlyActiveSlotIsActive ==
    /\ activeWorkout # null => Active.status = "active"
    /\ \A i \in 1..Len(workouts) : workouts[i].status = "completed"
    /\ \A p \in pendingFinish :
         /\ p.completedWorkout.status = "completed"
         /\ \A i \in 1..Len(p.workouts) : p.workouts[i].status = "completed"

\* a workout is active while the history list holds a completed one
C4_Witness ==
    /\ activeWorkout # null
    /\ Len(workouts) >= 1

\* C5, as stated: a workout that is in the history list is never changed: in
\* the next state the entry with its id, if there is one, is the same record.
C5_HistoryEntriesFrozen ==
    [][\A i \in 1..Len(workouts) : \A j \in 1..Len(workouts') :
           workouts[i].id = workouts'[j].id => workouts[i] = workouts'[j]]_vars

\* C6, as stated: when a suspended finishWorkout completes and clears the slot
\* of the workout it was called for, the entry it puts first in the history is
\* completed, with the workout's name, the duration of the call, and the
\* exercises the active workout holds at that moment.
C6_EntryIsActiveWorkoutAtClear ==
    [][\A p \in pendingFinish :
           (/\ p \notin pendingFinish'
            /\ activeWorkout # null
            /\ Active.id = p.completedWorkout.id) =>
               /\ workouts'[1].status = "completed"
               /\ workouts'[1].name = Active.name
               /\ workouts'[1].durationSeconds = p.completedWorkout.durationSeconds
               /\ workouts'[1].exercises = Active.exercises]_vars

\* C7, as stated: the answer to an advice request made in an earlier session
\* does not change the advice text of the session that is active now.
C7_StaleAdviceDiscarded ==
    [][\A i \in 1..Len(pendingAdvice) :
           LET p == pendingAdvice[i] IN
           (/\ pendingAdvice' = resumed(pendingAdvice, p)
            /\ activeWorkout # null
            /\ Active.id # p.session) => aiTip' = aiTip]_vars

\* C8, as stated: the history view lists a workout finalized later before
\* every workout finalized earlier.
C8_HistoryViewNewestFirst ==
    \A i \in 1..Len(HistoryView) : \A j \in 1..Len(HistoryView) :
        i < j =>
            \E a \in 1..Len(finishLog) : \E b \in 1..Len(finishLog) :
                /\ finishLog[a] = HistoryView[i].id
                /\ finishLog[b] = HistoryView[j].id
                /\ a > b

\* C9: without a key a gateway function returns its own fallback string for
\* every input, does not raise, and makes no request.
C9_NoKeyFallback ==
    (~apiKey /\ gw.pc # "idle") =>
        /\ gw.pc = "returned"
        /\ gw.attempts = 0
        /\ gw.kind = "exercise" => gw.result = "AI insights require an API Key."
        /\ gw.kind = "summary" => gw.result = "Great workout!"

\* without a key the summary function has returned for a workout with exercises
C9_Witness ==
    /\ ~apiKey
    /\ gw.pc = "returned"
    /\ gw.kind = "summary"
    /\ Len(gw.args[3]) = 2

\* C10: with a key a gateway function makes at most one request, does not
\* raise, and when the request failed or was answered with no text it returns
\* a fallback string of its own call type.
C10_OneAttemptOwnFallback ==
    (apiKey /\ gw.pc # "idle") =>
        /\ gw.attempts <= 1
        /\ gw.pc \in {"awaiting", "returned"}
        /\ (gw.pc = "returned" /\ gw.outcome \in {"empty", "throw"}) =>
               /\ gw.kind = "exercise" =>
                      gw.result \in {"Keep pushing!",
                                     "Focus on your form and breathing."}
               /\ gw.kind = "summary" =>
                      gw.result \in {"Good job completing your session.",
                                     "Great effort today!"}

\* with a key the exercise function has returned after its request failed
C10_Witness ==
    /\ apiKey
    /\ gw.pc = "returned"
    /\ gw.kind = "exercise"
    /\ gw.outcome = "throw"
    /\ gw.attempts = 1

\* the workouts a restart would read back from the storage
StoredWorkouts ==
    LET savedWorkouts == getItem(localStorage, "ironTrack_workouts")
    IN  IF savedWorkouts = null THEN <<>> ELSE JSONparse(savedWorkouts[1])

\* C15, as stated: a crash can come after any step, and the restart reads back
\* what the storage holds then, so no step takes out of the storage a workout
\* that was in it: the stored list loses nothing but a change not yet saved.
C15_RestartKeepsStoredWorkouts ==
    [][\A i \in 1..Len(StoredWorkouts) :
           \E j \in 1..Len(StoredWorkouts') :
               StoredWorkouts'[j].id = StoredWorkouts[i].id]_vars

\* C14: at most one exercise-advice request is suspended at any time, the
\* loading flag is set while one is, and the view then offers no second request.
C14_OneAdviceInFlight ==
    /\ Len(pendingAdvice) <= 1
    /\ pendingAdvice # <<>> =>
           /\ loadingTip
           /\ ~ENABLED ClickAiTip

\* a request is suspended while the workout it was made in is shown with its
\* exercise and the AI Tip button
C14_Witness ==
    /\ Len(pendingAdvice) = 1
    /\ ActiveWorkoutShown
    /\ Active.id = pendingAdvice[1].session
    /\ Active.exercises # <<>>

\* C13: the elapsed-time counter goes up only while an active workout exists,
\* by one, in a step that changes nothing else; while the slot is empty the
\* counter stays as it is, and the only other change of the counter is the
\* reset to zero by the startSession that fills the slot.
C13_TickOnlyWhileActive ==
    [][elapsedTime' # elapsedTime =>
           \/ /\ activeWorkout # null
              /\ elapsedTime' = elapsedTime + 1
              /\ UNCHANGED <<apiKey, user, currentView, workouts, activeWorkout,
                             aiTip, loadingTip, nextId, pendingFinish,
                             pendingAdvice, summaryLog, finishCalls, finishLog,
                             cancelled, gw, localStorage, mount>>
           \/ /\ elapsedTime' = 0
              /\ activeWorkout' # null
              /\ activeWorkout' # activeWorkout
              /\ Active'.exercises = <<>>]_vars

\* the slot was cleared, by a finish that has completed or by a cancel, with
\* the counter at a value the timer could still take further
C13_Witness ==
    /\ activeWorkout = null
    /\ elapsedTime < MaxTime
    /\ workouts # <<>> \/ cancelled # 0

\* C11: toggleSetComplete applied twice in a row with the same exercise id and
\* set id gives back the exercises it started from: the set has its first
\* completed value again, every other set and exercise is as it was.
C11_ToggleTwiceRestores ==
    activeWorkout # null =>
        \A exerciseId \in ExerciseIdArgs, setId \in SetIdArgs :
            toggledExercises(
                toggledExercises(Active.exercises, exerciseId, setId),
                exerciseId, setId) = Active.exercises

\* toggles have acted: the set that began completed is not, the set of the
\* other exercise that began not completed is, the third set is as it began
C11_Witness ==
    /\ activeWorkout # null
    /\ ~Active.exercises[1].sets[1].completed
    /\ ~Active.exercises[1].sets[2].completed
    /\ Active.exercises[2].sets[1].completed

\* C12: with no active workout, a call of addExercise, updateSet,
\* toggleSetComplete, addSet, removeSet, finishWorkout or cancelWorkout leaves
\* the slot empty and the history and the elapsed counter as they were, and
\* no summary call is made: none is counted, suspended or logged.
C12_NoOpWithoutWorkout ==
    [][(/\ activeWorkout = null
        /\ \/ CallAddExercise
           \/ CallUpdateSet
           \/ CallToggleSetComplete
           \/ CallAddSet
           \/ CallRemoveSet
           \/ finishWorkout
           \/ \E confirmed \in BOOLEAN : cancelWorkout(confirmed)) =>
           /\ activeWorkout' = null
           /\ workouts' = workouts
           /\ elapsedTime' = elapsedTime
           /\ finishCalls' = finishCalls
           /\ pendingFinish' = pendingFinish
           /\ pendingAdvice' = pendingAdvice
           /\ summaryLog' = summaryLog
           /\ gw' = gw]_vars

\* no workout is in progress, after the one that was has been cancelled, with
\* a finished workout in the history and a second on the counter
C12_Witness ==
    /\ activeWorkout = null
    /\ cancelled = StoreActive.id
    /\ workouts # <<>>
    /\ elapsedTime > 0

\* C17: startWorkout(type) puts in the slot a workout that is active, named
\* type, without exercises and with duration zero, sets the elapsed counter to
\* zero and the advice text to none, and leaves the history as it was.
C17_StartSession ==
    [][\A type \in StoreLabels :
           startWorkout(type) =>
               /\ activeWorkout' # null
               /\ Active'.status = "active"
               /\ Active'.name = type
               /\ Active'.exercises = <<>>
               /\ Active'.durationSeconds = 0
               /\ elapsedTime' = 0
               /\ aiTip' = null
               /\ workouts' = workouts]_vars

\* a session was started here under the second label, over a history that
\* is not empty
C17_Witness ==
    /\ activeWorkout # null
    /\ Active.id \in 1..MaxIds
    /\ Active.name = "Push Day"
    /\ Active.exercises = <<>>
    /\ workouts # <<>>

\* C18: addSet, called as the Add Set button calls it for an exercise of the
\* active workout, appends one set to that exercise, not completed and with
\* the weight and reps of the set that was last before; the sets that were
\* there and every other exercise are as they were.
C18_AddSetCopiesLast ==
    [][activeWorkout # null =>
           \A i \in 1..Len(Active.exercises) :
               LET exercise == Active.exercises[i]
                   n == Len(exercise.sets)
               IN  (n >= 1 /\ addSet(exercise.id, exercise.sets[n])) =>
                       /\ activeWorkout' # null
                       /\ Len(Active'.exercises) = Len(Active.exercises)
                       /\ \A k \in 1..Len(Active.exercises) :
                              k # i => Active'.exercises[k] = Active.exercises[k]
                       /\ Active'.exercises[i].id = exercise.id
                       /\ Active'.exercises[i].name = exercise.name
                       /\ Len(Active'.exercises[i].sets) = n + 1
                       /\ SubSeq(Active'.exercises[i].sets, 1, n) = exercise.sets
                       /\ Active'.exercises[i].sets[n + 1].completed = FALSE
                       /\ Active'.exercises[i].sets[n + 1].weight =
                              exercise.sets[n].weight
                       /\ Active'.exercises[i].sets[n + 1].reps =
                              exercise.sets[n].reps]_vars

\* the first exercise has a third set, a copy of the second (weight 1, reps
\* 0), beside the other exercise
C18_Witness ==
    /\ activeWorkout # null
    /\ Len(Active.exercises) >= 2
    /\ Len(Active.exercises[1].sets) = 3
    /\ Active.exercises[1].sets[3].weight = 1
    /\ Active.exercises[1].sets[3].reps = 0

\* C19: updateSet changes the named field, and nothing else, of the one set
\* whose id is setId in the exercise whose id is exerciseId; every other set
\* and exercise is as it was, so that nothing changes when an id matches
\* nothing; the history is as it was.
C19_UpdateSetFrame ==
    [][activeWorkout # null =>
           \A exerciseId \in ExerciseIdArgs, setId \in SetIdArgs :
             \A field \in Fields, value \in InputValues :
               updateSet(exerciseId, setId, field, value) =>
                 /\ workouts' = workouts
                 /\ activeWorkout' # null
                 /\ Len(Active'.exercises) = Len(Active.exercises)
                 /\ \A i \in 1..Len(Active.exercises) :
                      LET ex == Active.exercises[i]
                          updated == Active'.exercises[i]
                      IN  /\ updated.id = ex.id
                          /\ updated.name = ex.name
                          /\ Len(updated.sets) = Len(ex.sets)
                          /\ \A j \in 1..Len(ex.sets) :
                               IF ex.id = exerciseId /\ ex.sets[j].id = setId
                               THEN /\ updated.sets[j].id = setId
                                    /\ updated.sets[j].completed = ex.sets[j].completed
                                    /\ field = "weight" =>
                                         /\ updated.sets[j].weight = value
                                         /\ updated.sets[j].reps = ex.sets[j].reps
                                    /\ field = "reps" =>
                                         /\ updated.sets[j].reps = value
                                         /\ updated.sets[j].weight = ex.sets[j].weight
                               ELSE updated.sets[j] = ex.sets[j]]_vars

\* the reps of the second set have been entered; the first set beside it and
\* the set of the other exercise are as they began, over a history
C19_Witness ==
    /\ activeWorkout # null
    /\ Active.exercises[1].sets[2].reps # 0
    /\ Active.exercises[1].sets[1] = StoreActive.exercises[1].sets[1]
    /\ Active.exercises[2] = StoreActive.exercises[2]
    /\ workouts # <<>>

\* C20, as stated: every set of the active workout and of every workout of
\* the history has a weight that is not negative and a repetition count that
\* is a natural number.
C20_WeightsAndRepsNotNegative ==
    \A w \in (IF activeWorkout = null THEN {} ELSE {Active}) \cup
              {workouts[k] : k \in 1..Len(workouts)} :
        \A i \in 1..Len(w.exercises) :
            \A j \in 1..Len(w.exercises[i].sets) :
                /\ w.exercises[i].sets[j].weight >= 0
                /\ w.exercises[i].sets[j].reps \in Nat

\* two names that are equal when case is ignored
SameIgnoringCase(a, b) ==
    \/ a = b
    \/ \E names \in {{"Squat", "SQUAT", "squat"}, {"Bench Press", "bench press"}} :
           a \in names /\ b \in names

\* the places <<k, e>> of the exercises of a history that have the name of
\* the given exercise, case ignored: exercise e of workout k
MatchingPlaces(list, exercise) ==
    {place \in UNION {{<<k, e>> : e \in 1..Len(list[k].exercises)} :
                         k \in 1..Len(list)} :
        SameIgnoringCase(list[place[1]].exercises[place[2]].name, exercise.name)}

\* C16: for every history and every exercise of the active workout, the
\* history handed to getExerciseAdvice consists of exercises of the history
\* with the current exercise's name, case ignored: all of them when they are
\* five or fewer and five otherwise, none twice, none from an older workout
\* than one left out, those of a newer workout before those of an older; and
\* the prompt gives for each, in that order, the number of its sets and the
\* greatest of their weights.
C16_AdviceHistorySelection ==
    activeWorkout # null =>
        \A x \in 1..Len(Active.exercises) :
            LET exercise == Active.exercises[x]
                history == adviceHistory(workouts, exercise)
                text == historyText(history)
                places == MatchingPlaces(workouts, exercise)
                PlaceOf(h) == CHOOSE place \in places :
                    workouts[place[1]].exercises[place[2]].id = h.id
            IN  /\ Len(history) = IF Cardinality(places) < 5
                                  THEN Cardinality(places) ELSE 5
                /\ \A n \in 1..Len(history) :
                       \E place \in places :
                           workouts[place[1]].exercises[place[2]] = history[n]
                /\ \A n \in 1..Len(history) : \A m \in 1..Len(history) :
                       n < m => /\ history[n].id # history[m].id
                                /\ PlaceOf(history[n])[1] <= PlaceOf(history[m])[1]
                /\ \A place \in places :
                       (\A n \in 1..Len(history) : PlaceOf(history[n]) # place) =>
                           \A n \in 1..Len(history) :
                               PlaceOf(history[n])[1] <= place[1]
                /\ Len(text) = Len(history)
                /\ \A n \in 1..Len(history) :
                       /\ text[n].sets = Len(history[n].sets)
                       /\ \A j \in 1..Len(history[n].sets) :
                              history[n].sets[j].weight <= text[n].maxWeight
                       /\ \E j \in 1..Len(history[n].sets) :
                              history[n].sets[j].weight = text[n].maxWeight

\* a request for "squat" is suspended over a history with more than five
\* exercises of that name in other spellings: five were handed over, the
\* newest workout's first
C16_Witness ==
    /\ Len(pendingAdvice) = 1
    /\ pendingAdvice[1].name = "squat"
    /\ Cardinality(MatchingPlaces(workouts, [name |-> "squat"])) > 5
    /\ Len(pendingAdvice[1].history) = 5
    /\ pendingAdvice[1].history[1].name = "SQUAT"
    /\ pendingAdvice[1].history[1].id = workouts[1].exercises[1].id
    /\ pendingAdvice[1].historyText[1] = [sets |-> 3, maxWeight |-> 3]

\* C21, as stated: the active slot is cleared only by the finish or the cancel
\* of the workout it holds: when a suspended finishWorkout completes that was
\* called for another workout than the one in the slot, the slot keeps its
\* workout.
C21_StaleFinishKeepsNewWorkout ==
    [][\A p \in pendingFinish :
           (/\ p \notin pendingFinish'
            /\ activeWorkout # null
            /\ Active.id # p.completedWorkout.id) =>
               activeWorkout' = activeWorkout]_vars

\* C22, as stated: the history list only grows: a workout that is in the
\* history list is, by its id, in the history list of the next state.
C22_HistoryOnlyGrows ==
    [][\A i \in 1..Len(workouts) :
           \E j \in 1..Len(workouts') :
               workouts'[j].id = workouts[i].id]_vars

\* C23, as stated: the workout discarded by a confirmed cancel is not in the
\* history list in any later state.
C23_CancelledNeverInHistory ==
    cancelled # 0 =>
        \A i \in 1..Len(workouts) : workouts[i].id # cancelled

\* C24: in every state an active workout exists if and only if the current
\* view is the active-workout view, and the view offers startWorkout (on the
\* dashboard) only while the active slot is empty.
C24_ActiveIffActiveView ==
    /\ (activeWorkout # null) <=> (currentView = "ACTIVE_WORKOUT")
    /\ ENABLED ClickStartWorkout => activeWorkout = null

\* a workout is active and shown while the finish requested for an earlier
\* workout is still suspended: its completion will write the slot and the view
C24_Witness ==
    /\ activeWorkout # null
    /\ currentView = "ACTIVE_WORKOUT"
    /\ \E p \in pendingFinish : p.completedWorkout.id # Active.id

\* C25: no workout id is in the history list more than once, also when
\* finishWorkout is called several times for one workout before the first
\* summary call returns (generateId is modelled as handing out fresh ids).
C25_NoDuplicateIds ==
    \A i \in 1..Len(workouts) : \A j \in 1..Len(workouts) :
        i # j => workouts[i].id # workouts[j].id

\* one finish of a workout has completed and put it into the history while
\* another finish of the same workout, requested with another duration before
\* the first summary call returned, is still suspended
C25_Witness ==
    /\ Len(workouts) = 1
    /\ \E p \in pendingFinish :
         /\ p.completedWorkout.id = workouts[1].id
         /\ p.completedWorkout # workouts[1]


====
